---- MODULE Spec2Model ----
(***************************************************************************)
(* The message/chat store of the WhatsApp bridge (package database):       *)
(* the two SQLite tables created by Store.initTables, the two writers      *)
(* Store.StoreChat and Store.StoreMessage and the two paginated readers    *)
(* Store.GetMessages and Store.GetChats.                                   *)
(*                                                                         *)
(* A table is the set of its rows.  A timestamp is an instant, a number.   *)
(* Every call is one SQL statement, so every call is one atomic step; the  *)
(* variable lastCall is the call that completed last, with what its caller *)
(* got back.                                                               *)
(*                                                                         *)
(* The validators of package validation and the classification of a jid    *)
(* (Chat.IsGroup, Chat.IsContact) are pure functions of strings; a string  *)
(* is the sequence of its characters.                                      *)
(*                                                                         *)
(* These specifications share the state and the actions:                   *)
(*   Spec            the two writers, every chat and every message;        *)
(*   SpecChats       StoreChat and GetChats, the chats table alone;        *)
(*   SpecMessages    the writers and GetMessages, with one chat row per    *)
(*                   jid (the messages table never reads a chat's name or  *)
(*                   time);                                                *)
(*   SpecRoundTrip   StoreChat, then StoreMessage in that chat, then       *)
(*                   GetMessages of that chat;                             *)
(*   SpecValidation  each validator applied once to an input that arrived; *)
(*   SpecApi         each function of package api applied once to a        *)
(*                   request that arrived;                                 *)
(*   SpecStartup     NewStore on a new database and on one that has its    *)
(*                   tables and rows, between writes;                      *)
(*   SpecInbound     callers that each store a chat and then a message of  *)
(*                   that chat, among other writers and readers;           *)
(*   SpecPool        operations taking and returning the connections of    *)
(*                   the pool.                                             *)
(***************************************************************************)
EXTENDS Integers, Sequences, FiniteSets

VARIABLES chats, messages, lastCall, schema, inbound, pool

vars == <<chats, messages, lastCall, schema, inbound, pool>>

(***************************************************************************)
(* Bounds of the model.                                                    *)
(***************************************************************************)
MaxRows == 2
MaxLimit == 2
MaxOffset == 1

JIDs == {"1@s.whatsapp.net", "1-2@g.us"}
Names == {"A", "B"}
IDs == {"m1", "m2"}
Contents == {"", "hi"}
MediaTypes == {"", "image"}
Times == {1, 2}
Limits == (-1)..MaxLimit
Offsets == (-1)..MaxOffset

(***************************************************************************)
(* The values a caller can pass.                                           *)
(***************************************************************************)
Chat == [jid : JIDs, name : Names, last_message_time : Times]

Message ==
  [id : IDs, chat_jid : JIDs, sender : {"1@s.whatsapp.net"},
   content : Contents, timestamp : Times, is_from_me : {FALSE},
   media_type : MediaTypes, filename : {""}, url : {""},
   media_key : {<<>>}, file_sha256 : {<<>>}, file_enc_sha256 : {<<>>},
   file_length : {0}]

NoError == "nil"
ForeignKeyViolation == "FOREIGN KEY constraint failed"

(***************************************************************************)
(* The schema: chats(jid PRIMARY KEY), messages(PRIMARY KEY (id,           *)
(* chat_jid), FOREIGN KEY (chat_jid) REFERENCES chats(jid)), and the       *)
(* connection option _foreign_keys=on that makes SQLite enforce the        *)
(* foreign key.                                                            *)
(***************************************************************************)
ChatKey(c) == c.jid

MessageKey(m) == <<m.id, m.chat_jid>>

ForeignKeysOff == FALSE

ForeignKeysOn == TRUE

ForeignKeyHoldsUnchecked(msg, chatRows) == TRUE

ForeignKeyHolds(msg, chatRows) ==
  ForeignKeysOn => \E c \in chatRows : c.jid = msg.chat_jid

(***************************************************************************)
(* INSERT OR REPLACE: the rows that collide with the new row on the        *)
(* primary key are deleted, then the new row is inserted.                  *)
(***************************************************************************)
InsertChatKeepOld(table, chat) == table \cup {chat}

InsertOrReplaceChat(table, chat) ==
  {c \in table : ChatKey(c) # ChatKey(chat)} \cup {chat}

InsertMessageById(table, msg) ==
  {m \in table : m.id # msg.id} \cup {msg}

InsertMessageColumnByColumn(table, msg) ==
  {m \in table : MessageKey(m) # MessageKey(msg)}
    \cup {[msg EXCEPT !.timestamp = m.timestamp] :
            m \in {old \in table : MessageKey(old) = MessageKey(msg)}}
    \cup {m \in {msg} : \A old \in table : MessageKey(old) # MessageKey(msg)}

InsertOrReplaceMessage(table, msg) ==
  {m \in table : MessageKey(m) # MessageKey(msg)} \cup {msg}

(***************************************************************************)
(* StoreMessage's guard: only a message with content or media is stored.   *)
(***************************************************************************)
HasContentOrMediaAlways(msg) == TRUE

HasContentAndMedia(msg) == msg.content # "" /\ msg.media_type # ""

HasContentOrMedia(msg) == ~(msg.content = "" /\ msg.media_type = "")

(***************************************************************************)
(* ORDER BY <time column> DESC names no second sort key: SQL leaves the    *)
(* order of rows with equal times to the engine, so every ordering of the  *)
(* rows that is non-increasing in time is a possible outcome of a query.   *)
(***************************************************************************)
Orderings(rows) ==
  {s \in [1..Cardinality(rows) -> rows] :
     \A i, j \in DOMAIN s : i # j => s[i] # s[j]}

MessagesAscending(rows) ==
  {s \in Orderings(rows) :
     \A i, j \in DOMAIN s : i < j => s[i].timestamp <= s[j].timestamp}

OrderByTimestampDesc(rows) ==
  {s \in Orderings(rows) :
     \A i, j \in DOMAIN s : i < j => s[i].timestamp >= s[j].timestamp}

ChatsAscending(rows) ==
  {s \in Orderings(rows) :
     \A i, j \in DOMAIN s :
        i < j => s[i].last_message_time <= s[j].last_message_time}

OrderByLastMessageTimeDesc(rows) ==
  {s \in Orderings(rows) :
     \A i, j \in DOMAIN s :
        i < j => s[i].last_message_time >= s[j].last_message_time}

(***************************************************************************)
(* LIMIT ? OFFSET ? as SQLite evaluates it: a negative OFFSET is zero, a   *)
(* negative LIMIT is no limit.                                             *)
(***************************************************************************)
Min(a, b) == IF a <= b THEN a ELSE b

LimitOffset(s, limit, offset) ==
  LET off == IF offset < 0 THEN 0 ELSE offset
      last == IF limit < 0 THEN Len(s) ELSE Min(Len(s), off + limit)
  IN  SubSeq(s, off + 1, last)

WhereChatJID(table, chatJID) == {m \in table : m.chat_jid = chatJID}

GetMessagesResults(table, chatJID, limit, offset) ==
  {LimitOffset(s, limit, offset) :
     s \in OrderByTimestampDesc(WhereChatJID(table, chatJID))}

GetChatsResults(table, limit, offset) ==
  {LimitOffset(s, limit, offset) : s \in OrderByLastMessageTimeDesc(table)}

(***************************************************************************)
(* What the database file holds beside the rows: the tables and indexes    *)
(* that initTables has created.                                            *)
(***************************************************************************)
Tables == {"chats", "messages"}

Indexes ==
  {"idx_messages_chat_jid", "idx_messages_timestamp", "idx_messages_sender",
   "idx_chats_last_message_time"}

FullSchema == Tables \cup Indexes

(***************************************************************************)
(* The callers of the store that are between the two writes of one inbound *)
(* event, each with the message it has still to write; and the connection  *)
(* pool of database/sql: the operations that hold a connection, those that *)
(* wait for one, the idle connections kept open, and one caller followed   *)
(* by itself.  initTables has used one connection and returned it.         *)
(***************************************************************************)
Callers == {"c1", "c2"}

NoInbound == [c \in Callers |-> <<>>]

PoolAfterNewStore == [running |-> 0, waiting |-> 0, free |-> 1, caller |-> "idle"]

(***************************************************************************)
(* The store after NewStore on a fresh database file: both tables empty.   *)
(***************************************************************************)
Init ==
  /\ chats = {}
  /\ messages = {}
  /\ lastCall = [op |-> "NewStore", arg |-> <<>>, rows |-> <<>>, err |-> NoError]
  /\ schema = FullSchema
  /\ inbound = NoInbound
  /\ pool = PoolAfterNewStore

(***************************************************************************)
(* REPLACE deletes the chat row that has the new row's jid before it       *)
(* inserts.  The foreign key of messages names no ON DELETE action: the    *)
(* rows that refer to the deleted row stay, and the constraint, looked at  *)
(* when the statement ends, holds again since the jid is back.  A          *)
(* statement that ends with a constraint violated is undone whole.         *)
(***************************************************************************)
OnDeleteCascade(rows, deleted) ==
  {m \in rows : \A c \in deleted : m.chat_jid # ChatKey(c)}

OnDeleteNoAction(rows, deleted) == rows

ConstraintFail(table, msg) == InsertOrReplaceMessage(table, msg)

ConstraintAbort(table, msg) == table

(***************************************************************************)
(* The statement of each writer, and the writer called on its own.         *)
(***************************************************************************)
ExecStoreChat(chat) ==
  /\ chats' = InsertOrReplaceChat(chats, chat)
  /\ messages' = OnDeleteNoAction(messages, {c \in chats : ChatKey(c) = ChatKey(chat)})
  /\ lastCall' = [op |-> "StoreChat", arg |-> chat, rows |-> <<>>, err |-> NoError]

StoreChat(chat) ==
  /\ ExecStoreChat(chat)
  /\ UNCHANGED <<schema, inbound, pool>>

ExecStoreMessage(msg) ==
  /\ \/ Cardinality(messages) < MaxRows
     \/ \E m \in messages : MessageKey(m) = MessageKey(msg)
  /\ IF ~HasContentOrMedia(msg)
       THEN /\ UNCHANGED messages
            /\ lastCall' = [op |-> "StoreMessage", arg |-> msg, rows |-> <<>>,
                            err |-> NoError]
       ELSE IF ~ForeignKeyHolds(msg, chats)
         THEN /\ messages' = ConstraintAbort(messages, msg)
              /\ lastCall' = [op |-> "StoreMessage", arg |-> msg, rows |-> <<>>,
                              err |-> ForeignKeyViolation]
         ELSE /\ messages' = InsertOrReplaceMessage(messages, msg)
              /\ lastCall' = [op |-> "StoreMessage", arg |-> msg, rows |-> <<>>,
                              err |-> NoError]
  /\ UNCHANGED chats

StoreMessage(msg) ==
  /\ ExecStoreMessage(msg)
  /\ UNCHANGED <<schema, inbound, pool>>

GetMessages(chatJID, limit, offset) ==
  /\ \E rows \in GetMessagesResults(messages, chatJID, limit, offset) :
       lastCall' = [op |-> "GetMessages",
                    arg |-> [chatJID |-> chatJID, limit |-> limit, offset |-> offset],
                    rows |-> rows, err |-> NoError]
  /\ UNCHANGED <<chats, messages, schema, inbound, pool>>

GetChats(limit, offset) ==
  /\ \E rows \in GetChatsResults(chats, limit, offset) :
       lastCall' = [op |-> "GetChats",
                    arg |-> [limit |-> limit, offset |-> offset],
                    rows |-> rows, err |-> NoError]
  /\ UNCHANGED <<chats, messages, schema, inbound, pool>>

(***************************************************************************)
(* Spec: the writers.                                                      *)
(***************************************************************************)
Next ==
  \/ \E chat \in Chat : StoreChat(chat)
  \/ \E msg \in Message : StoreMessage(msg)

Spec == Init /\ [][Next]_vars

(***************************************************************************)
(* SpecChats: the chats table, written and listed.                         *)
(***************************************************************************)
NextChats ==
  \/ \E chat \in Chat : StoreChat(chat)
  \/ \E limit \in Limits, offset \in Offsets : GetChats(limit, offset)

SpecChats == Init /\ [][NextChats]_vars

(***************************************************************************)
(* SpecMessages: the messages table, written and listed.                   *)
(***************************************************************************)
ChatPerJID == {c \in Chat : c.name = "A" /\ c.last_message_time = 1}

NextMessages ==
  \/ \E chat \in ChatPerJID : StoreChat(chat)
  \/ \E msg \in Message : StoreMessage(msg)
  \/ \E chatJID \in JIDs, limit \in Limits, offset \in Offsets :
       GetMessages(chatJID, limit, offset)

SpecMessages == Init /\ [][NextMessages]_vars

(***************************************************************************)
(* NewStore: the directory is made, the database file is opened with the   *)
(* first statement, and initTables runs CREATE TABLE IF NOT EXISTS and     *)
(* CREATE INDEX IF NOT EXISTS for every table and index.  A table that     *)
(* exists keeps its rows; one that does not is created empty.  storage is  *)
(* what os.MkdirAll or the opening of the file fails with, if they do.     *)
(***************************************************************************)
StorageOutcomes ==
  {NoError, "mkdir: permission denied", "unable to open database file"}

CreateTable(name, rows, existing) == {}

CreateTableIfNotExists(name, rows, existing) ==
  IF name \in existing THEN rows ELSE {}

CreateIndexIfNotExists(name, existing) == existing \cup {name}

NewStore(storage) ==
  /\ IF storage # NoError
       THEN /\ lastCall' = [op |-> "NewStore", arg |-> storage, rows |-> <<>>,
                            err |-> IF storage = "mkdir: permission denied"
                                      THEN "failed to create store directory: " \o storage
                                      ELSE "failed to initialize tables: " \o storage]
            /\ UNCHANGED <<chats, messages, schema, pool>>
       ELSE /\ chats' = CreateTableIfNotExists("chats", chats, schema)
            /\ messages' = CreateTableIfNotExists("messages", messages, schema)
            /\ schema' = UNION {CreateIndexIfNotExists(name, schema \cup Tables) :
                                  name \in Indexes}
            /\ pool' = PoolAfterNewStore
            /\ lastCall' = [op |-> "NewStore", arg |-> storage, rows |-> <<>>,
                            err |-> NoError]
  /\ UNCHANGED inbound

(***************************************************************************)
(* SpecStartup: a process starts on a database file that does not exist,   *)
(* and again at any time later on the file the writers have written; the   *)
(* writers run on a store that NewStore has returned.                      *)
(***************************************************************************)
ChatPerTime == {c \in Chat : c.last_message_time = 1}

PlainMessages == {m \in Message : m.media_type = "" /\ m.timestamp = 1}

InitStartup ==
  /\ chats = {}
  /\ messages = {}
  /\ schema = {}
  /\ inbound = NoInbound
  /\ pool = PoolAfterNewStore
  /\ lastCall = [op |-> "main", arg |-> <<>>, rows |-> <<>>, err |-> NoError]

NextStartup ==
  \/ \E storage \in StorageOutcomes : NewStore(storage)
  \/ /\ lastCall.op # "main"
     /\ ~(lastCall.op = "NewStore" /\ lastCall.err # NoError)
     /\ \E chat \in ChatPerTime : StoreChat(chat)
  \/ /\ lastCall.op # "main"
     /\ ~(lastCall.op = "NewStore" /\ lastCall.err # NoError)
     /\ \E msg \in PlainMessages : StoreMessage(msg)

SpecStartup == InitStartup /\ [][NextStartup]_vars

(***************************************************************************)
(* The connection pool of database/sql under SetMaxOpenConns(10) and       *)
(* SetMaxIdleConns(5).  An operation takes an idle connection if there is  *)
(* one, opens a connection if fewer than the maximum are open, and         *)
(* otherwise waits (db.Exec and db.Query pass context.Background(), so the *)
(* wait has no end of its own).  An operation that completes hands its     *)
(* connection to a waiting operation, picked at random, if there is one;   *)
(* otherwise the connection is kept idle if fewer than the maximum are     *)
(* idle, and closed if not.  One caller is followed by itself, storing a   *)
(* chat; the others are counted.                                           *)
(***************************************************************************)
MaxOpenConns == 10
MaxIdleConns == 5
MaxCallers == 11

InFlight(p) == p.running + (IF p.caller = "running" THEN 1 ELSE 0)

OpenConns(p) == InFlight(p) + p.free

CanOpenAlways(p) == TRUE

CanOpen(p) == OpenConns(p) < MaxOpenConns

Conn(p) ==
  IF p.free > 0 THEN "idle connection"
  ELSE IF CanOpen(p) THEN "new connection"
  ELSE "wait"

PutConn(p) ==
  IF p.free < MaxIdleConns THEN [p EXCEPT !.free = p.free + 1] ELSE p

BeginOther ==
  /\ pool.running + pool.waiting < MaxCallers
  /\ pool' = IF Conn(pool) = "idle connection"
               THEN [pool EXCEPT !.running = pool.running + 1, !.free = pool.free - 1]
             ELSE IF Conn(pool) = "new connection"
               THEN [pool EXCEPT !.running = pool.running + 1]
             ELSE [pool EXCEPT !.waiting = pool.waiting + 1]
  /\ UNCHANGED <<chats, messages, lastCall, schema, inbound>>

BeginCaller ==
  /\ pool.caller = "idle"
  /\ pool' = IF Conn(pool) = "idle connection"
               THEN [pool EXCEPT !.caller = "running", !.free = pool.free - 1]
             ELSE IF Conn(pool) = "new connection"
               THEN [pool EXCEPT !.caller = "running"]
             ELSE [pool EXCEPT !.caller = "waiting"]
  /\ UNCHANGED <<chats, messages, lastCall, schema, inbound>>

CompleteOtherToOther ==
  /\ pool.running > 0
  /\ pool.waiting > 0
  /\ pool' = [pool EXCEPT !.waiting = pool.waiting - 1]
  /\ UNCHANGED <<chats, messages, lastCall, schema, inbound>>

CompleteOtherToCaller ==
  /\ pool.running > 0
  /\ pool.caller = "waiting"
  /\ pool' = [pool EXCEPT !.running = pool.running - 1, !.caller = "running"]
  /\ UNCHANGED <<chats, messages, lastCall, schema, inbound>>

CompleteOther ==
  /\ pool.running > 0
  /\ pool.waiting = 0
  /\ pool.caller # "waiting"
  /\ pool' = PutConn([pool EXCEPT !.running = pool.running - 1])
  /\ UNCHANGED <<chats, messages, lastCall, schema, inbound>>

CompleteCaller(chat) ==
  /\ pool.caller = "running"
  /\ ExecStoreChat(chat)
  /\ pool' = IF pool.waiting > 0
               THEN [pool EXCEPT !.caller = "idle", !.waiting = pool.waiting - 1,
                                 !.running = pool.running + 1]
               ELSE PutConn([pool EXCEPT !.caller = "idle"])
  /\ UNCHANGED <<schema, inbound>>

(***************************************************************************)
(* SpecPool.  A statement that runs completes, and a connection that is    *)
(* handed on goes to each waiting operation with the same chance: the      *)
(* caller that waits is not passed over for ever.                          *)
(***************************************************************************)
NextPool ==
  \/ BeginOther
  \/ BeginCaller
  \/ CompleteOtherToOther
  \/ CompleteOtherToCaller
  \/ CompleteOther
  \/ \E chat \in ChatPerJID : CompleteCaller(chat)

SpecPool == Init /\ [][NextPool]_vars /\ WF_vars(CompleteOtherToCaller)

(***************************************************************************)
(* recordInbound(chat, message): the caller of the store that takes an     *)
(* incoming event is not part of the source at hand; by the specification  *)
(* it calls StoreChat and then StoreMessage, two statements between which  *)
(* other callers run.  inbound[c] is the message caller c has still to     *)
(* write; recordInbound returns StoreMessage's result.                     *)
(***************************************************************************)
RecordInboundChat(c, chat, msg) ==
  /\ inbound[c] = <<>>
  /\ msg.chat_jid = chat.jid
  /\ ExecStoreChat(chat)
  /\ inbound' = [inbound EXCEPT ![c] = <<msg>>]
  /\ UNCHANGED <<schema, pool>>

RecordInboundMessage(c) ==
  /\ inbound[c] # <<>>
  /\ ExecStoreMessage(inbound[c][1])
  /\ inbound' = [inbound EXCEPT ![c] = <<>>]
  /\ UNCHANGED <<schema, pool>>

(***************************************************************************)
(* SpecInbound: the callers of recordInbound, other writers and a reader,  *)
(* one statement at a time in any order.                                   *)
(***************************************************************************)
NextInbound ==
  \/ \E c \in Callers, chat \in ChatPerJID, msg \in PlainMessages :
       RecordInboundChat(c, chat, msg)
  \/ \E c \in Callers : RecordInboundMessage(c)
  \/ \E chat \in ChatPerJID : StoreChat(chat)
  \/ \E msg \in PlainMessages : StoreMessage(msg)
  \/ \E chatJID \in JIDs : GetMessages(chatJID, MaxLimit, 0)

SpecInbound == Init /\ [][NextInbound]_vars

(***************************************************************************)
(* SpecRoundTrip: TestStoreMessage's scenario on a fresh store: one chat   *)
(* is stored, then one message of that chat with content, then the chat's  *)
(* messages are listed with limit 10 and offset 0.                         *)
(***************************************************************************)
RoundTripLimit == 10

NextRoundTrip ==
  \/ /\ lastCall.op = "NewStore"
     /\ \E chat \in Chat : StoreChat(chat)
  \/ /\ lastCall.op = "StoreChat"
     /\ \E msg \in Message :
          /\ msg.chat_jid = lastCall.arg.jid
          /\ msg.content # ""
          /\ StoreMessage(msg)
  \/ /\ lastCall.op = "StoreMessage"
     /\ GetMessages(lastCall.arg.chat_jid, RoundTripLimit, 0)

SpecRoundTrip == Init /\ [][NextRoundTrip]_vars

(***************************************************************************)
(* Package validation and Chat's classification.  A string is the          *)
(* sequence of its characters, each a one-character string.                *)
(***************************************************************************)
MaxDigits == 16

MinPhoneDigits == 10

MaxPhoneDigits == 15

DigitChars == {"0", "1", "2", "3", "4", "5", "6", "7", "8", "9"}

UserDomain == <<"@", "s", ".", "w", "h", "a", "t", "s", "a", "p", "p", ".", "n", "e", "t">>

GroupDomain == <<"@", "g", ".", "u", "s">>

DigitRun(n) == [i \in 1..n |-> IF i = n THEN "9" ELSE "1"]

AllDigits(str) == \A i \in DOMAIN str : str[i] \in DigitChars

Suffix(str, n) == SubSeq(str, Len(str) - n + 1, Len(str))

(* phoneJIDPattern  ^\d{10,15}@s\.whatsapp\.net$ *)
MatchPhoneJID(str) ==
  \E n \in MinPhoneDigits..MaxPhoneDigits :
    /\ Len(str) = n + Len(UserDomain)
    /\ AllDigits(SubSeq(str, 1, n))
    /\ SubSeq(str, n + 1, Len(str)) = UserDomain

(* groupJIDPattern  ^\d+-\d+@g\.us$ *)
MatchGroupJID(str) ==
  \E i \in DOMAIN str :
    /\ str[i] = "-"
    /\ i > 1
    /\ AllDigits(SubSeq(str, 1, i - 1))
    /\ Len(str) - i > Len(GroupDomain)
    /\ AllDigits(SubSeq(str, i + 1, Len(str) - Len(GroupDomain)))
    /\ Suffix(str, Len(GroupDomain)) = GroupDomain

(* phonePattern  ^\d{10,15}$ *)
MatchPhone(str) ==
  /\ Len(str) >= MinPhoneDigits
  /\ Len(str) <= MaxPhoneDigits
  /\ AllDigits(str)

ValidateJID(jid) ==
  IF jid = <<>> THEN "JID cannot be empty"
  ELSE IF MatchPhoneJID(jid) \/ MatchGroupJID(jid) THEN NoError
  ELSE "invalid JID format"

ValidatePhoneNumber(phone) ==
  IF phone = <<>> THEN "phone number cannot be empty"
  ELSE IF ~MatchPhone(phone) THEN "invalid phone number format"
  ELSE NoError

ValidateRecipient(recipient) ==
  IF recipient = <<>> THEN "recipient cannot be empty"
  ELSE IF ValidatePhoneNumber(recipient) = NoError THEN NoError
  ELSE IF ValidateJID(recipient) = NoError THEN NoError
  ELSE "invalid recipient format"

(* Chat.IsGroup: len(c.JID) > 6 && c.JID[len(c.JID)-6:] == "@g.us" *)
IsGroup(jid) == Len(jid) > 6 /\ Suffix(jid, 6) = GroupDomain

(* Chat.IsContact: len(c.JID) > 13 && c.JID[len(c.JID)-13:] == "@s.whatsapp.net" *)
IsContact(jid) == Len(jid) > 13 /\ Suffix(jid, 13) = UserDomain

(***************************************************************************)
(* The identity strings the calls are tried on: a run of digits, or a      *)
(* word, followed by a domain part.                                        *)
(***************************************************************************)
UserParts ==
  {DigitRun(n) : n \in 0..MaxDigits}
    \cup {<<"i", "n", "v", "a", "l", "i", "d">>, DigitRun(10) \o <<"a">>,
          <<"a">> \o DigitRun(10)}

DomainParts ==
  {<<>>, UserDomain, GroupDomain,
   <<"-">> \o DigitRun(1) \o GroupDomain,
   <<"-">> \o DigitRun(9) \o GroupDomain,
   <<"-">> \o GroupDomain,
   <<"-">> \o DigitRun(1) \o <<"-">> \o DigitRun(1) \o GroupDomain,
   <<"-">> \o DigitRun(1) \o UserDomain,
   <<"@", "i", "n", "v", "a", "l", "i", "d", ".", "d", "o", "m", "a", "i", "n">>,
   <<"@", "s", "x", "w", "h", "a", "t", "s", "a", "p", "p", "x", "n", "e", "t">>,
   UserDomain \o <<"x">>,
   GroupDomain \o <<"x">>}

Identities == {u \o d : u \in UserParts, d \in DomainParts}

(***************************************************************************)
(* ValidateFilePath.  filepath.Clean on a slash-separated path: the        *)
(* elements between slashes, without the empty ones and the "." ones, each *)
(* ".." taking away the element before it (or itself, at the root); the    *)
(* empty result is ".".  filepath.Abs returns the clean path when it is    *)
(* rooted, and otherwise joins it to the working directory, failing when   *)
(* os.Getwd fails.                                                         *)
(***************************************************************************)
MaxPathLen == 5

Nul == "NUL"

PathChars == {"/", ".", "a", Nul}

DotDot == <<".", ".">>

WorkingDir == <<"/", "w">>

Contains(str, sub) ==
  \E i \in 1..(Len(str) - Len(sub) + 1) : SubSeq(str, i, i + Len(sub) - 1) = sub

RECURSIVE Split(_)
Split(str) ==
  IF \E i \in DOMAIN str : str[i] = "/"
    THEN LET i == CHOOSE k \in DOMAIN str :
                    str[k] = "/" /\ \A j \in 1..(k - 1) : str[j] # "/"
         IN  <<SubSeq(str, 1, i - 1)>> \o Split(SubSeq(str, i + 1, Len(str)))
    ELSE <<str>>

RECURSIVE Resolve(_, _, _)
Resolve(elems, out, rooted) ==
  IF elems = <<>> THEN out
  ELSE LET el == Head(elems)
           rest == Tail(elems)
       IN  IF el = <<>> \/ el = <<".">> THEN Resolve(rest, out, rooted)
           ELSE IF el = DotDot
             THEN IF out # <<>> /\ out[Len(out)] # DotDot
                    THEN Resolve(rest, SubSeq(out, 1, Len(out) - 1), rooted)
                    ELSE IF rooted THEN Resolve(rest, out, rooted)
                    ELSE Resolve(rest, Append(out, el), rooted)
             ELSE Resolve(rest, Append(out, el), rooted)

RECURSIVE JoinElements(_)
JoinElements(elems) ==
  IF elems = <<>> THEN <<>>
  ELSE IF Len(elems) = 1 THEN elems[1]
  ELSE elems[1] \o <<"/">> \o JoinElements(Tail(elems))

IsAbs(path) == path # <<>> /\ path[1] = "/"

Clean(path) ==
  LET joined == JoinElements(Resolve(Split(path), <<>>, IsAbs(path)))
  IN  IF IsAbs(path) THEN <<"/">> \o joined
      ELSE IF joined = <<>> THEN <<".">>
      ELSE joined

Abs(path, env) ==
  IF IsAbs(path) THEN [path |-> Clean(path), err |-> NoError]
  ELSE IF env.getwd # NoError THEN [path |-> <<>>, err |-> env.getwd]
  ELSE [path |-> Clean(WorkingDir \o <<"/">> \o path), err |-> NoError]

ValidateFilePathAndStat(path, env) ==
  IF path = <<>> THEN "file path cannot be empty"
  ELSE IF Contains(Clean(path), DotDot) THEN "path traversal detected"
  ELSE IF ~env.exists THEN "no such file or directory"
  ELSE NoError

ValidateFilePath(path, env) ==
  IF path = <<>> THEN "file path cannot be empty"
  ELSE LET cleanPath == Clean(path)
       IN  IF Contains(cleanPath, DotDot) THEN "path traversal detected"
           ELSE LET abs == Abs(cleanPath, env)
                IN  IF abs.err # NoError THEN "invalid file path"
                    ELSE IF Contains(abs.path, <<Nul>>)
                      THEN "invalid file path contains null byte"
                    ELSE NoError

(***************************************************************************)
(* The paths, and what surrounds a call: whether a file exists at the      *)
(* path (no file has an empty name or a null byte in its name) and what    *)
(* os.Getwd returns.                                                       *)
(***************************************************************************)
Paths == UNION {[1..n -> PathChars] : n \in 0..MaxPathLen}

Environments ==
  [exists : BOOLEAN, getwd : {NoError, "getwd: no such file or directory"}]

PathRequests ==
  {r \in [path : Paths, env : Environments] :
     r.env.exists => (r.path # <<>> /\ ~Contains(r.path, <<Nul>>))}

(***************************************************************************)
(* ValidateMessageContent.                                                 *)
(***************************************************************************)
MaxContentLength == 4096

ContentOfLength(n) == [i \in 1..n |-> "x"]

ContentInputs ==
  {ContentOfLength(n) :
     n \in {0, 1, 5, MaxContentLength - 1, MaxContentLength,
            MaxContentLength + 1, 5000}}

ValidateMessageContentFrom(content) ==
  IF Len(content) >= MaxContentLength THEN "message content too long" ELSE NoError

ValidateMessageContent(content) ==
  IF Len(content) > MaxContentLength THEN "message content too long" ELSE NoError

(***************************************************************************)
(* ValidateMediaType.  filepath.Ext is the suffix from the last dot of the *)
(* last slash-separated element, empty when that element has no dot.       *)
(***************************************************************************)
UpperCase ==
  <<"A", "B", "C", "D", "E", "F", "G", "H", "I", "J", "K", "L", "M",
    "N", "O", "P", "Q", "R", "S", "T", "U", "V", "W", "X", "Y", "Z">>

LowerCase ==
  <<"a", "b", "c", "d", "e", "f", "g", "h", "i", "j", "k", "l", "m",
    "n", "o", "p", "q", "r", "s", "t", "u", "v", "w", "x", "y", "z">>

ToLower(str) ==
  [i \in DOMAIN str |->
     IF \E k \in DOMAIN UpperCase : UpperCase[k] = str[i]
       THEN LowerCase[CHOOSE k \in DOMAIN UpperCase : UpperCase[k] = str[i]]
       ELSE str[i]]

ToUpper(str) ==
  [i \in DOMAIN str |->
     IF \E k \in DOMAIN LowerCase : LowerCase[k] = str[i]
       THEN UpperCase[CHOOSE k \in DOMAIN LowerCase : LowerCase[k] = str[i]]
       ELSE str[i]]

ExtFromFirstDot(path) ==
  IF \E i \in DOMAIN path : path[i] = "."
    THEN LET i == CHOOSE k \in DOMAIN path :
                    path[k] = "." /\ \A j \in 1..(k - 1) : path[j] # "."
         IN  SubSeq(path, i, Len(path))
    ELSE <<>>

Ext(path) ==
  LET dots == {i \in DOMAIN path :
                 path[i] = "." /\ \A k \in i..Len(path) : path[k] # "/"}
  IN  IF dots = {} THEN <<>>
      ELSE SubSeq(path, CHOOSE i \in dots : \A k \in dots : k <= i, Len(path))

AllowedTypes ==
  {<<".", "j", "p", "g">>, <<".", "j", "p", "e", "g">>, <<".", "p", "n", "g">>,
   <<".", "g", "i", "f">>, <<".", "w", "e", "b", "p">>, <<".", "m", "p", "4">>,
   <<".", "m", "o", "v">>, <<".", "a", "v", "i">>, <<".", "m", "p", "3">>,
   <<".", "w", "a", "v">>, <<".", "o", "g", "g">>, <<".", "m", "4", "a">>,
   <<".", "p", "d", "f">>, <<".", "d", "o", "c">>, <<".", "d", "o", "c", "x">>,
   <<".", "t", "x", "t">>}

ValidateMediaType(filename) ==
  IF filename = <<>> THEN "filename cannot be empty"
  ELSE IF ToLower(Ext(filename)) \notin AllowedTypes THEN "unsupported media type"
  ELSE NoError

OtherEndings ==
  {<<>>, <<".">>, <<".", "j", "s">>, <<".", "e", "x", "e">>,
   <<".", "j", "p", "g", "x">>, <<"j", "p", "g">>, <<".", "j", "p", "g", "/">>,
   <<".", "j", "p", "g", ".">>, <<".", "j", "p", "g", "/", "b">>}

FirstUpper(str) ==
  IF Len(str) < 2 THEN str
  ELSE SubSeq(str, 1, 1) \o ToUpper(SubSeq(str, 2, 2)) \o SubSeq(str, 3, Len(str))

Endings ==
  LET plain == AllowedTypes \cup OtherEndings
  IN  plain \cup {ToUpper(e) : e \in plain} \cup {FirstUpper(e) : e \in plain}

Stems ==
  {<<>>, <<"i", "m", "a", "g", "e">>, <<"a", ".", "b">>, <<"d", ".", "d", "/">>,
   <<"d", "/", "f">>}

Filenames == {st \o e : st \in Stems, e \in Endings}

Returned(op, arg, err) == [op |-> op, arg |-> arg, rows |-> <<>>, err |-> err]

(***************************************************************************)
(* A validator is a function of its argument alone: the argument is drawn  *)
(* when the request arrives (lastCall.op says what kind of string it is),  *)
(* and the call that is made on it returns.                                *)
(***************************************************************************)
Arrived(kind, arg) == [op |-> kind, arg |-> arg, rows |-> <<>>, err |-> NoError]

CallValidateJID ==
  /\ lastCall.op = "identity"
  /\ lastCall' = Returned("ValidateJID", lastCall.arg, ValidateJID(lastCall.arg))
  /\ UNCHANGED <<chats, messages, schema, inbound, pool>>

CallValidatePhoneNumber ==
  /\ lastCall.op = "identity"
  /\ lastCall' = Returned("ValidatePhoneNumber", lastCall.arg,
                          ValidatePhoneNumber(lastCall.arg))
  /\ UNCHANGED <<chats, messages, schema, inbound, pool>>

CallValidateRecipient ==
  /\ lastCall.op = "identity"
  /\ lastCall' = Returned("ValidateRecipient", lastCall.arg,
                          ValidateRecipient(lastCall.arg))
  /\ UNCHANGED <<chats, messages, schema, inbound, pool>>

CallIsGroup ==
  /\ lastCall.op = "identity"
  /\ lastCall' = [op |-> "IsGroup", arg |-> lastCall.arg, rows |-> <<>>,
                  err |-> NoError, result |-> IsGroup(lastCall.arg)]
  /\ UNCHANGED <<chats, messages, schema, inbound, pool>>

CallIsContact ==
  /\ lastCall.op = "identity"
  /\ lastCall' = [op |-> "IsContact", arg |-> lastCall.arg, rows |-> <<>>,
                  err |-> NoError, result |-> IsContact(lastCall.arg)]
  /\ UNCHANGED <<chats, messages, schema, inbound, pool>>

CallValidateFilePath ==
  /\ lastCall.op = "path"
  /\ lastCall' = Returned("ValidateFilePath", lastCall.arg,
                          ValidateFilePath(lastCall.arg.path, lastCall.arg.env))
  /\ UNCHANGED <<chats, messages, schema, inbound, pool>>

CallValidateMessageContent ==
  /\ lastCall.op = "content"
  /\ lastCall' = Returned("ValidateMessageContent", lastCall.arg,
                          ValidateMessageContent(lastCall.arg))
  /\ UNCHANGED <<chats, messages, schema, inbound, pool>>

CallValidateMediaType ==
  /\ lastCall.op = "filename"
  /\ lastCall' = Returned("ValidateMediaType", lastCall.arg,
                          ValidateMediaType(lastCall.arg))
  /\ UNCHANGED <<chats, messages, schema, inbound, pool>>

(***************************************************************************)
(* SpecValidation: every validator and the classification, each applied to *)
(* every string of its kind.                                               *)
(***************************************************************************)
InitValidation ==
  /\ chats = {}
  /\ messages = {}
  /\ schema = FullSchema
  /\ inbound = NoInbound
  /\ pool = PoolAfterNewStore
  /\ lastCall \in
       {Arrived("identity", jid) : jid \in Identities}
         \cup {Arrived("path", r) : r \in PathRequests}
         \cup {Arrived("content", c) : c \in ContentInputs}
         \cup {Arrived("filename", f) : f \in Filenames}

NextValidation ==
  \/ CallValidateJID
  \/ CallValidatePhoneNumber
  \/ CallValidateRecipient
  \/ CallIsGroup
  \/ CallIsContact
  \/ CallValidateFilePath
  \/ CallValidateMessageContent
  \/ CallValidateMediaType

SpecValidation == InitValidation /\ [][NextValidation]_vars

(***************************************************************************)
(* Package api.  strconv.Atoi reads an optional sign and then one or more  *)
(* decimal digits; anything else is a syntax error, and a value outside    *)
(* the 64-bit int is a range error.  The decimal numeral of a value stands *)
(* for the value where the value is not needed.                            *)
(***************************************************************************)
Digits == <<"0", "1", "2", "3", "4", "5", "6", "7", "8", "9">>

DigitValue(ch) == (CHOOSE k \in DOMAIN Digits : Digits[k] = ch) - 1

RECURSIVE DecimalValue(_)
DecimalValue(str) ==
  IF str = <<>> THEN 0
  ELSE 10 * DecimalValue(SubSeq(str, 1, Len(str) - 1)) + DigitValue(str[Len(str)])

RECURSIVE Significant(_)
Significant(str) ==
  IF Len(str) > 1 /\ str[1] = "0" THEN Significant(Tail(str)) ELSE str

MaxInt64 ==
  <<"9", "2", "2", "3", "3", "7", "2", "0", "3", "6",
    "8", "5", "4", "7", "7", "5", "8", "0", "7">>

NumeralAbove(a, b) ==
  \/ Len(a) > Len(b)
  \/ /\ Len(a) = Len(b)
     /\ \E i \in DOMAIN a :
          /\ DigitValue(a[i]) > DigitValue(b[i])
          /\ \A k \in 1..(i - 1) : a[k] = b[k]

Atoi(str) ==
  LET signed == str # <<>> /\ str[1] \in {"+", "-"}
      body == IF signed THEN Tail(str) ELSE str
  IN  IF body = <<>> \/ ~AllDigits(body)
        THEN [val |-> 0, err |-> "invalid syntax"]
      ELSE IF NumeralAbove(Significant(body), MaxInt64)
        THEN [val |-> 0, err |-> "value out of range"]
      ELSE [val |-> IF signed /\ str[1] = "-"
                      THEN 0 - DecimalValue(body) ELSE DecimalValue(body),
            err |-> NoError]

(* url.Values.Get: the first value of the key, the empty string when the   *)
(* query has no such key.                                                  *)
Get(param) == IF param.present THEN param.value ELSE <<>>

DefaultLimit == 20
SmallestLimit == 1
LargestLimit == 100
DefaultOffset == 0

parseQueryParamsAnyLimit(query) ==
  LET limitStr == Get(query.limit)
      offsetStr == Get(query.offset)
      limit == IF limitStr = <<>> THEN [val |-> DefaultLimit, err |-> NoError]
               ELSE Atoi(limitStr)
      offset == IF offsetStr = <<>> THEN [val |-> DefaultOffset, err |-> NoError]
                ELSE Atoi(offsetStr)
  IN  IF limit.err # NoError
        THEN [limit |-> 0, offset |-> 0, err |-> "invalid limit parameter"]
      ELSE IF offset.err # NoError \/ offset.val < 0
        THEN [limit |-> 0, offset |-> 0, err |-> "invalid offset parameter"]
      ELSE [limit |-> limit.val, offset |-> offset.val, err |-> NoError]

parseQueryParams(query) ==
  LET limitStr == Get(query.limit)
      offsetStr == Get(query.offset)
      limit == IF limitStr = <<>> THEN [val |-> DefaultLimit, err |-> NoError]
               ELSE Atoi(limitStr)
      offset == IF offsetStr = <<>> THEN [val |-> DefaultOffset, err |-> NoError]
                ELSE Atoi(offsetStr)
  IN  IF limit.err # NoError \/ limit.val < SmallestLimit \/ limit.val > LargestLimit
        THEN [limit |-> 0, offset |-> 0, err |-> "invalid limit parameter"]
      ELSE IF offset.err # NoError \/ offset.val < 0
        THEN [limit |-> 0, offset |-> 0, err |-> "invalid offset parameter"]
      ELSE [limit |-> limit.val, offset |-> offset.val, err |-> NoError]

(* The values a query parameter is given. *)
ParamValues ==
  {<<>>, <<"0">>, <<"1">>, <<"2", "0">>, <<"9", "9">>, <<"1", "0", "0">>,
   <<"1", "0", "1">>, <<"0", "0", "7">>, <<"-", "1">>, <<"-", "0">>,
   <<"+", "5">>, <<"-">>, <<"a", "b", "c">>, <<"1", "a">>, <<"1", ".", "5">>,
   <<" ", "1">>, <<"0", "x", "1", "0">>,
   <<"1", "8", "4", "4", "6", "7", "4", "4", "0", "7",
     "3", "7", "0", "9", "5", "5", "1", "6", "2", "1">>}

Params ==
  {[present |-> FALSE, value |-> <<>>]}
    \cup {[present |-> TRUE, value |-> v] : v \in ParamValues}

Queries == [limit : Params, offset : Params]

CallParseQueryParams ==
  /\ lastCall.op = "query"
  /\ LET parsed == parseQueryParams(lastCall.arg)
     IN  lastCall' = [op |-> "parseQueryParams", arg |-> lastCall.arg,
                      rows |-> <<>>, err |-> parsed.err,
                      limit |-> parsed.limit, offset |-> parsed.offset]
  /\ UNCHANGED <<chats, messages, schema, inbound, pool>>

(***************************************************************************)
(* The two send requests and their validation.  A send-file request is     *)
(* validated where its file path is read, so it comes with what surrounds  *)
(* that path.                                                              *)
(***************************************************************************)
validateSendMessageRequestBodyFirst(req) ==
  LET bad == ValidateMessageContent(req.message)
      who == ValidateRecipient(req.recipient)
  IN  IF bad # NoError THEN "invalid message: " \o bad
      ELSE IF who # NoError THEN "invalid recipient: " \o who
      ELSE NoError

validateSendMessageRequest(req) ==
  LET who == ValidateRecipient(req.recipient)
      bad == ValidateMessageContent(req.message)
  IN  IF who # NoError THEN "invalid recipient: " \o who
      ELSE IF bad # NoError THEN "invalid message: " \o bad
      ELSE NoError

validateSendFileRequest(req) ==
  LET who == ValidateRecipient(req.recipient)
      bad == ValidateFilePath(req.file_path, req.env)
  IN  IF who # NoError THEN "invalid recipient: " \o who
      ELSE IF bad # NoError THEN "invalid file path: " \o bad
      ELSE NoError

Recipients ==
  {<<>>, <<"a", "b", "c">>, DigitRun(MinPhoneDigits - 1), DigitRun(MinPhoneDigits),
   DigitRun(MinPhoneDigits) \o UserDomain, <<"1", "-", "2">> \o GroupDomain}

SendMessageRequests == [recipient : Recipients, message : ContentInputs]

SendFileRequests ==
  {[recipient |-> who, file_path |-> r.path, env |-> r.env] :
     who \in Recipients, r \in {q \in PathRequests : Len(q.path) <= 2}}

CallValidateSendMessageRequest ==
  /\ lastCall.op = "sendMessage"
  /\ lastCall' = Returned("validateSendMessageRequest", lastCall.arg,
                          validateSendMessageRequest(lastCall.arg))
  /\ UNCHANGED <<chats, messages, schema, inbound, pool>>

CallValidateSendFileRequest ==
  /\ lastCall.op = "sendFile"
  /\ lastCall' = Returned("validateSendFileRequest", lastCall.arg,
                          validateSendFileRequest(lastCall.arg))
  /\ UNCHANGED <<chats, messages, schema, inbound, pool>>

(***************************************************************************)
(* The handlers that call the two validations are not part of the source   *)
(* at hand; by the specification a request that fails validation is        *)
(* answered with status 400 and a request that passes is forwarded to the  *)
(* network client.                                                         *)
(***************************************************************************)
ForwardSendMessage ==
  /\ lastCall.op = "validateSendMessageRequest"
  /\ lastCall.err = NoError
  /\ lastCall' = Returned("forwardMessage", lastCall.arg, NoError)
  /\ UNCHANGED <<chats, messages, schema, inbound, pool>>

ForwardSendFile ==
  /\ lastCall.op = "validateSendFileRequest"
  /\ lastCall.err = NoError
  /\ lastCall' = Returned("forwardFile", lastCall.arg, NoError)
  /\ UNCHANGED <<chats, messages, schema, inbound, pool>>

RejectSend ==
  /\ lastCall.op \in {"validateSendMessageRequest", "validateSendFileRequest"}
  /\ lastCall.err # NoError
  /\ lastCall' = [op |-> "writeErrorResponse", arg |-> lastCall.arg, rows |-> <<>>,
                  err |-> lastCall.err, status |-> "400 Bad Request"]
  /\ UNCHANGED <<chats, messages, schema, inbound, pool>>

(***************************************************************************)
(* parseJSONBody.  A body is the sequence of its JSON tokens.              *)
(* Decoder.Decode reads the first JSON value of the input and stores it in *)
(* the target: ValueEnd is the position after the value that starts at a   *)
(* position, 0 when the tokens from there are not the start of a value or  *)
(* end before the value does.  What follows the first value is left in the *)
(* decoder's buffer, unread.                                               *)
(***************************************************************************)
StringTokens == {"\"recipient\"", "\"message\"", "\"file_path\"", "\"extra\"", "\"hi\""}

ScalarTokens == StringTokens \cup {"1", "null", "true"}

RECURSIVE ValueEnd(_, _), MembersEnd(_, _), ElementsEnd(_, _)
ValueEnd(t, i) ==
  IF i > Len(t) THEN 0
  ELSE IF t[i] \in ScalarTokens THEN i + 1
  ELSE IF t[i] = "{"
    THEN IF i + 1 <= Len(t) /\ t[i + 1] = "}" THEN i + 2 ELSE MembersEnd(t, i + 1)
  ELSE IF t[i] = "["
    THEN IF i + 1 <= Len(t) /\ t[i + 1] = "]" THEN i + 2 ELSE ElementsEnd(t, i + 1)
  ELSE 0

MembersEnd(t, i) ==
  IF i + 1 > Len(t) \/ t[i] \notin StringTokens \/ t[i + 1] # ":" THEN 0
  ELSE LET j == ValueEnd(t, i + 2)
       IN  IF j = 0 \/ j > Len(t) THEN 0
           ELSE IF t[j] = "}" THEN j + 1
           ELSE IF t[j] = "," THEN MembersEnd(t, j + 1)
           ELSE 0

ElementsEnd(t, i) ==
  LET j == ValueEnd(t, i)
  IN  IF j = 0 \/ j > Len(t) THEN 0
      ELSE IF t[j] = "]" THEN j + 1
      ELSE IF t[j] = "," THEN ElementsEnd(t, j + 1)
      ELSE 0

(* The members of a well-formed object in their order, from the member at  *)
(* position i: the first that the target cannot take decides the error.    *)
RECURSIVE MemberError(_, _, _, _)
MemberError(t, i, declared, disallowUnknownFields) ==
  LET j == ValueEnd(t, i + 2)
      this == IF t[i] \notin declared
                THEN IF disallowUnknownFields THEN "json: unknown field" ELSE NoError
              ELSE IF t[i + 2] \notin StringTokens \cup {"null"}
                THEN "json: cannot unmarshal into Go struct field of type string"
              ELSE NoError
  IN  IF this # NoError THEN this
      ELSE IF t[j] = "," THEN MemberError(t, j + 1, declared, disallowUnknownFields)
      ELSE NoError

Decode(t, declared, disallowUnknownFields) ==
  LET end == ValueEnd(t, 1)
  IN  IF t = <<>> THEN "EOF"
      ELSE IF end = 0 THEN "json: syntax error"
      ELSE IF t[1] = "null" THEN NoError
      ELSE IF t[1] # "{" THEN "json: cannot unmarshal into Go value of type struct"
      ELSE IF t[2] = "}" THEN NoError
      ELSE MemberError(t, 2, declared, disallowUnknownFields)

parseJSONBody(body, declared) ==
  IF ~body.present THEN "request body is empty"
  ELSE LET err == Decode(body.tokens, declared, TRUE)
       IN  IF err # NoError THEN "invalid JSON: " \o err ELSE NoError

(* The request types, each by the fields it declares. *)
RequestTypes ==
  {{"\"recipient\"", "\"message\""}, {"\"recipient\"", "\"file_path\""}}

Object(members) == <<"{">> \o members \o <<"}">>

Member(key, value) == <<key, ":">> \o value

BodyTokens ==
  LET recipient == Member("\"recipient\"", <<"\"hi\"">>)
      message == Member("\"message\"", <<"\"hi\"">>)
      extra == Member("\"extra\"", <<"\"hi\"">>)
  IN  {<<>>, <<"x">>, <<"null">>, <<"1">>, <<"\"hi\"">>, <<"[", "]">>,
       <<"[", "1", ",", "1", "]">>,
       Object(<<>>), Object(recipient), Object(recipient \o <<",">> \o message),
       Object(message \o <<",">> \o recipient),
       Object(extra), Object(recipient \o <<",">> \o extra),
       Object(Member("\"recipient\"", <<"1">>)),
       Object(Member("\"recipient\"", <<"null">>)),
       Object(Member("\"recipient\"", Object(extra))),
       Object(Member("\"recipient\"", <<"[", "\"hi\"", "]">>)),
       Object(recipient \o <<",">>), Object(<<",">>),
       <<"{">> \o recipient, <<"{", "\"recipient\"", "\"hi\"", "}">>,
       Object(recipient) \o <<"x">>, Object(recipient) \o <<"}">>,
       Object(recipient) \o Object(extra)}

Bodies ==
  {[present |-> FALSE, tokens |-> <<>>]}
    \cup {[present |-> TRUE, tokens |-> t] : t \in BodyTokens}

CallParseJSONBody ==
  /\ lastCall.op = "body"
  /\ lastCall' = Returned("parseJSONBody", lastCall.arg,
                          parseJSONBody(lastCall.arg.body, lastCall.arg.declared))
  /\ UNCHANGED <<chats, messages, schema, inbound, pool>>

(***************************************************************************)
(* SpecApi: each function of package api applied once to a request that    *)
(* arrived.                                                                *)
(***************************************************************************)
InitApi ==
  /\ chats = {}
  /\ messages = {}
  /\ schema = FullSchema
  /\ inbound = NoInbound
  /\ pool = PoolAfterNewStore
  /\ lastCall \in
       {Arrived("query", q) : q \in Queries}
         \cup {Arrived("sendMessage", req) : req \in SendMessageRequests}
         \cup {Arrived("sendFile", req) : req \in SendFileRequests}
         \cup {Arrived("body", [body |-> b, declared |-> d]) :
                  b \in Bodies, d \in RequestTypes}

NextApi ==
  \/ CallParseQueryParams
  \/ CallValidateSendMessageRequest
  \/ CallValidateSendFileRequest
  \/ ForwardSendMessage
  \/ ForwardSendFile
  \/ RejectSend
  \/ CallParseJSONBody

SpecApi == InitApi /\ [][NextApi]_vars

(***************************************************************************)
(* What the tables hold, as the claims speak of it.                        *)
(***************************************************************************)
ChatExists(chatRows, jid) == \E c \in chatRows : c.jid = jid

IsEmptyMessage(msg) == msg.content = "" /\ msg.media_type = ""

(* C1: the chats table holds exactly one row per jid: after StoreChat the  *)
(* only row with that jid is the one just written (its name replaces the   *)
(* stored name), and GetChats with a window over all chats returns that    *)
(* jid exactly once.                                                       *)
C1_OneRowPerJid ==
  /\ \A c1, c2 \in chats : c1.jid = c2.jid => c1 = c2
  /\ lastCall.op = "StoreChat" =>
       /\ \A c \in chats : c.jid = lastCall.arg.jid => c = lastCall.arg
       /\ \A rows \in GetChatsResults(chats, Cardinality(chats), 0) :
            Cardinality({i \in DOMAIN rows : rows[i].jid = lastCall.arg.jid}) = 1
  /\ (lastCall.op = "GetChats" /\ lastCall.arg.offset = 0
        /\ lastCall.arg.limit >= Cardinality(chats)) =>
       \A c \in chats :
         Cardinality({i \in DOMAIN lastCall.rows : lastCall.rows[i].jid = c.jid}) = 1

C1_Witness ==
  /\ lastCall.op = "GetChats" /\ lastCall.arg.offset = 0
  /\ lastCall.arg.limit >= Cardinality(chats)
  /\ Len(lastCall.rows) = 2
  /\ \E i \in DOMAIN lastCall.rows : lastCall.rows[i].name = "B"

(* C2, as claimed: StoreMessage of any message whose chat_jid is the jid   *)
(* of no chat fails with the foreign-key violation.                        *)
C2_UnknownChatAlwaysFails ==
  (lastCall.op = "StoreMessage" /\ ~ChatExists(chats, lastCall.arg.chat_jid)) =>
    lastCall.err = ForeignKeyViolation

(* C2, amended: StoreMessage of a message with content or a media type     *)
(* whose chat_jid is the jid of no chat fails with the foreign-key         *)
(* violation; of a message with neither it returns success.  (StoreMessage *)
(* leaves chats alone, so the chats after the call are those before it.)   *)
C2_UnknownChatFailsUnlessEmpty ==
  (lastCall.op = "StoreMessage" /\ ~ChatExists(chats, lastCall.arg.chat_jid)) =>
    IF IsEmptyMessage(lastCall.arg)
      THEN lastCall.err = NoError
      ELSE lastCall.err = ForeignKeyViolation

C2_Witness ==
  /\ lastCall.op = "StoreMessage"
  /\ ~ChatExists(chats, lastCall.arg.chat_jid)
  /\ lastCall.arg.content = "" /\ lastCall.arg.media_type = "image"
  /\ lastCall.err = ForeignKeyViolation

(* C3: StoreMessage of a message with empty content and empty media_type   *)
(* returns success and leaves the messages table as it was: nothing is     *)
(* inserted, and a row with the same (id, chat_jid) stays as it is.        *)
C3_EmptyMessageIsNoOp ==
  [][(lastCall'.op = "StoreMessage" /\ IsEmptyMessage(lastCall'.arg)) =>
       (lastCall'.err = NoError /\ messages' = messages)]_vars

C3_Witness ==
  /\ lastCall.op = "StoreMessage" /\ IsEmptyMessage(lastCall.arg)
  /\ lastCall.err = NoError
  /\ \E m \in messages :
       /\ MessageKey(m) = MessageKey(lastCall.arg)
       /\ m # lastCall.arg

(* C4: every row of messages has the jid of some row of chats as its       *)
(* chat_jid, in every reachable state.                                     *)
C4_ReferentialIntegrity ==
  \A m \in messages : ChatExists(chats, m.chat_jid)

C4_Witness ==
  /\ lastCall.op = "StoreChat" /\ lastCall.arg.name = "B"
  /\ \E m \in messages : m.chat_jid = lastCall.arg.jid
  /\ Cardinality(messages) = 2

(* C5: messages holds at most one row per (id, chat_jid); a successful     *)
(* StoreMessage of a message with content or media leaves exactly that     *)
(* message under its key and every row of another key as it was, and no    *)
(* other call changes the table: so the row of a key is the latest         *)
(* successful upsert of it, and one id lives in two chats as two rows.     *)
C5_UpsertByIdAndChat ==
  [][/\ \A m1, m2 \in messages' : MessageKey(m1) = MessageKey(m2) => m1 = m2
     /\ IF /\ lastCall'.op = "StoreMessage"
           /\ lastCall'.err = NoError
           /\ ~IsEmptyMessage(lastCall'.arg)
          THEN /\ lastCall'.arg \in messages'
               /\ {m \in messages' : MessageKey(m) # MessageKey(lastCall'.arg)}
                    = {m \in messages : MessageKey(m) # MessageKey(lastCall'.arg)}
          ELSE messages' = messages]_vars

C5_Witness ==
  /\ lastCall.op = "StoreMessage" /\ lastCall.err = NoError
  /\ lastCall.arg \in messages
  /\ \E m \in messages :
       m.id = lastCall.arg.id /\ m.chat_jid # lastCall.arg.chat_jid

(***************************************************************************)
(* The place of a row in a descending ordering, by its time alone: a row   *)
(* can stand at position p exactly when fewer than p rows are later than   *)
(* it and at least p rows are not earlier than it.  A window of limit rows *)
(* after the first offset rows is the positions offset+1 .. offset+limit   *)
(* that the ordering has, counted from 1.                                  *)
(***************************************************************************)
Max(a, b) == IF a >= b THEN a ELSE b

CanStandAt(times, t, p) ==
  /\ Cardinality({k \in DOMAIN times : times[k] > t}) < p
  /\ Cardinality({k \in DOMAIN times : times[k] >= t}) >= p

MessageTimes(rows) ==
  LET s == CHOOSE o \in Orderings(rows) : TRUE
  IN  [k \in DOMAIN s |-> s[k].timestamp]

ChatTimes(rows) ==
  LET s == CHOOSE o \in Orderings(rows) : TRUE
  IN  [k \in DOMAIN s |-> s[k].last_message_time]

IsWindow(result, times, timeOf(_), limit, offset) ==
  LET positions == {p \in DOMAIN times : offset < p /\ p <= offset + limit}
  IN  /\ Len(result) = Cardinality(positions)
      /\ \A i, j \in DOMAIN result : i # j => result[i] # result[j]
      /\ \A i, j \in DOMAIN result :
            i < j => timeOf(result[i]) >= timeOf(result[j])
      /\ \A i \in DOMAIN result :
            /\ Max(offset, 0) + i \in positions
            /\ CanStandAt(times, timeOf(result[i]), Max(offset, 0) + i)

TimestampOf(m) == m.timestamp

LastMessageTimeOf(c) == c.last_message_time

(* C6: pagination composes: with no write between the calls, the rows of   *)
(* GetMessages(chatJID, N, 0) followed by those of GetMessages(chatJID, M, *)
(* N) are the rows of GetMessages(chatJID, N+M, 0), whatever each of the   *)
(* three calls returns on the tables as they stand.                        *)
C6_PaginationComposes ==
  \A chatJID \in JIDs, N \in 0..MaxLimit, M \in 0..MaxLimit :
    \A first \in GetMessagesResults(messages, chatJID, N, 0),
       second \in GetMessagesResults(messages, chatJID, M, N),
       whole \in GetMessagesResults(messages, chatJID, N + M, 0) :
      first \o second = whole

(* C7: a list call repeated with the same arguments on the same tables     *)
(* returns the same sequence of rows.                                      *)
C7_SameCallSameRows ==
  [][(/\ lastCall.op \in {"GetMessages", "GetChats"}
      /\ lastCall'.op = lastCall.op
      /\ lastCall'.arg = lastCall.arg) =>
       lastCall'.rows = lastCall.rows]_vars

(* C8, as claimed: GetMessages(chatJID, limit, offset) returns, without    *)
(* error, rows of that chat only, in non-increasing timestamp order, at    *)
(* most limit of them, standing at positions offset+1 .. offset+limit of a *)
(* descending ordering of the chat's rows; for every limit and offset.     *)
C8_MessagesWindowAnyArguments ==
  lastCall.op = "GetMessages" =>
    /\ lastCall.err = NoError
    /\ \A i \in DOMAIN lastCall.rows :
         /\ lastCall.rows[i] \in messages
         /\ lastCall.rows[i].chat_jid = lastCall.arg.chatJID
    /\ IsWindow(lastCall.rows,
                MessageTimes(WhereChatJID(messages, lastCall.arg.chatJID)),
                TimestampOf, lastCall.arg.limit, lastCall.arg.offset)

(* C8, amended: the same for limit >= 0 and offset >= 0; in particular     *)
(* a chat with no messages, or no chat at all, gives the empty sequence    *)
(* and no error.                                                           *)
C8_MessagesWindow ==
  (lastCall.op = "GetMessages" /\ lastCall.arg.limit >= 0
     /\ lastCall.arg.offset >= 0) =>
    /\ lastCall.err = NoError
    /\ \A i \in DOMAIN lastCall.rows :
         /\ lastCall.rows[i] \in messages
         /\ lastCall.rows[i].chat_jid = lastCall.arg.chatJID
    /\ IsWindow(lastCall.rows,
                MessageTimes(WhereChatJID(messages, lastCall.arg.chatJID)),
                TimestampOf, lastCall.arg.limit, lastCall.arg.offset)
    /\ WhereChatJID(messages, lastCall.arg.chatJID) = {} => lastCall.rows = <<>>

C8_Witness ==
  /\ lastCall.op = "GetMessages"
  /\ lastCall.arg.limit = 1 /\ lastCall.arg.offset = 1
  /\ Len(lastCall.rows) = 1
  /\ \E m \in messages :
       /\ m.chat_jid = lastCall.arg.chatJID
       /\ m.timestamp > lastCall.rows[1].timestamp

(* C9, as claimed: GetChats(limit, offset) returns chats in non-increasing *)
(* last_message_time order, standing at positions offset+1 .. offset+limit *)
(* of a descending ordering of all chats; for every limit and offset.      *)
C9_ChatsWindowAnyArguments ==
  lastCall.op = "GetChats" =>
    /\ \A i \in DOMAIN lastCall.rows : lastCall.rows[i] \in chats
    /\ IsWindow(lastCall.rows, ChatTimes(chats), LastMessageTimeOf,
                lastCall.arg.limit, lastCall.arg.offset)

(* C9, amended: the same for limit >= 0 and offset >= 0.                   *)
C9_ChatsWindow ==
  (lastCall.op = "GetChats" /\ lastCall.arg.limit >= 0
     /\ lastCall.arg.offset >= 0) =>
    /\ lastCall.err = NoError
    /\ \A i \in DOMAIN lastCall.rows : lastCall.rows[i] \in chats
    /\ IsWindow(lastCall.rows, ChatTimes(chats), LastMessageTimeOf,
                lastCall.arg.limit, lastCall.arg.offset)

C9_Witness ==
  /\ lastCall.op = "GetChats"
  /\ lastCall.arg.limit = 1 /\ lastCall.arg.offset = 1
  /\ Len(lastCall.rows) = 1
  /\ \E c \in chats : c.last_message_time > lastCall.rows[1].last_message_time

(* C10: the last_message_time stored for a jid never decreases.            *)
C10_LastMessageTimeNeverDecreases ==
  [][\A c \in chats, d \in chats' :
       c.jid = d.jid => d.last_message_time >= c.last_message_time]_vars

(* C11: round trip: on an empty store, StoreChat(c), then StoreMessage(m)  *)
(* with m.chat_jid = c.jid and content, then GetMessages(c.jid, 10, 0)     *)
(* returns, without error, exactly one message, equal to m in every        *)
(* stored field.                                                           *)
C11_RoundTrip ==
  [][(lastCall.op = "StoreMessage" /\ lastCall'.op = "GetMessages") =>
       /\ lastCall'.err = NoError
       /\ Len(lastCall'.rows) = 1
       /\ lastCall'.rows[1].content = lastCall.arg.content
       /\ lastCall'.rows[1] = lastCall.arg]_vars

C11_Witness ==
  /\ lastCall.op = "GetMessages"
  /\ lastCall.arg.limit = RoundTripLimit /\ lastCall.arg.offset = 0
  /\ Len(lastCall.rows) = 1
  /\ lastCall.rows[1].content = "hi" /\ lastCall.rows[1].media_type = ""
  /\ chats # {}

(***************************************************************************)
(* The shapes of identity the claims name: <digits>@s.whatsapp.net with    *)
(* one or more digits, and <digits>-<digits>@g.us.                         *)
(***************************************************************************)
EndsWith(str, tail) == Len(str) >= Len(tail) /\ Suffix(str, Len(tail)) = tail

IsUserIdentity(str) ==
  /\ Len(str) > Len(UserDomain)
  /\ EndsWith(str, UserDomain)
  /\ \A i \in 1..(Len(str) - Len(UserDomain)) : str[i] \in DigitChars

IsGroupIdentity(str) ==
  /\ EndsWith(str, GroupDomain)
  /\ \E i \in 2..(Len(str) - Len(GroupDomain) - 1) :
       /\ str[i] = "-"
       /\ \A k \in 1..(Len(str) - Len(GroupDomain)) : k # i => str[k] \in DigitChars

(* C12: for every jid that ValidateJID accepts exactly one of IsGroup and  *)
(* IsContact is true, IsGroup for a jid ending in "@g.us" and IsContact    *)
(* for one ending in "@s.whatsapp.net"; for every jid it rejects both are  *)
(* false.                                                                  *)
C12_ClassificationAgreesWithValidation ==
  lastCall.op \in {"IsGroup", "IsContact"} =>
    LET jid == lastCall.arg
    IN  IF ValidateJID(jid) = NoError
          THEN /\ IsGroup(jid) # IsContact(jid)
               /\ IsGroup(jid) = EndsWith(jid, GroupDomain)
               /\ IsContact(jid) = EndsWith(jid, UserDomain)
          ELSE ~IsGroup(jid) /\ ~IsContact(jid)

(* C13: ValidateJID succeeds exactly for <one or more digits>              *)
(* @s.whatsapp.net and <digits>-<digits>@g.us, and fails for every other   *)
(* string.                                                                 *)
C13_ValidateJIDAcceptsStructuredIdentities ==
  lastCall.op = "ValidateJID" =>
    (lastCall.err = NoError <=>
       (IsUserIdentity(lastCall.arg) \/ IsGroupIdentity(lastCall.arg)))

(* C14: ValidateRecipient succeeds if and only if ValidatePhoneNumber or   *)
(* ValidateJID does; it accepts every <digits>@s.whatsapp.net and          *)
(* <digits>-<digits>@g.us identity, and rejects the empty string and every *)
(* digit string shorter than 10 or longer than 15.                         *)
C14_ValidateRecipientAcceptsPhoneOrIdentity ==
  lastCall.op = "ValidateRecipient" =>
    LET r == lastCall.arg
    IN  /\ lastCall.err = NoError <=>
             (ValidatePhoneNumber(r) = NoError \/ ValidateJID(r) = NoError)
        /\ (IsUserIdentity(r) \/ IsGroupIdentity(r)) => lastCall.err = NoError
        /\ r = <<>> => lastCall.err # NoError
        /\ (AllDigits(r) /\ (Len(r) < 10 \/ Len(r) > 15)) => lastCall.err # NoError

(***************************************************************************)
(* File paths as the claims speak of them: the elements of the normalized  *)
(* path, and a well-formed absolute path.                                  *)
(***************************************************************************)
HasParentSegment(path) ==
  \E i \in DOMAIN Split(Clean(path)) : Split(Clean(path))[i] = DotDot

HasNullByte(path) == \E i \in DOMAIN path : path[i] = Nul

WellFormedAbsolute(path) ==
  /\ IsAbs(path)
  /\ Len(path) > 1
  /\ ~HasNullByte(path)
  /\ ~Contains(path, DotDot)

(* C15: ValidateFilePath fails for the empty path, for every path whose    *)
(* normalized form still has a ".." segment and for every path containing  *)
(* a null byte; the absolute path of an existing file with no such segment *)
(* passes.                                                                 *)
C15_FilePathRejectsAndAccepts ==
  lastCall.op = "ValidateFilePath" =>
    LET path == lastCall.arg.path
        env == lastCall.arg.env
    IN  /\ path = <<>> => lastCall.err # NoError
        /\ HasParentSegment(path) => lastCall.err # NoError
        /\ HasNullByte(path) => lastCall.err # NoError
        /\ (env.exists /\ IsAbs(path) /\ ~HasParentSegment(path))
             => lastCall.err = NoError

C17_MissingFileIsRejected ==
  (lastCall.op = "ValidateFilePath" /\ ~lastCall.arg.env.exists)
    => lastCall.err # NoError

C19_EmptyContentIsRejected ==
  lastCall.op = "ValidateMessageContent" =>
    /\ Len(lastCall.arg) = 0 => lastCall.err # NoError
    /\ Len(lastCall.arg) > 4096 => lastCall.err # NoError
    /\ Len(lastCall.arg) \in 1..5 => lastCall.err = NoError

(***************************************************************************)
(* A filename ends in an extension of the list, letter case aside, when    *)
(* its last characters are that extension's, each in either case.          *)
(***************************************************************************)
SameLetter(a, b) ==
  \/ a = b
  \/ \E k \in DOMAIN LowerCase :
       {a, b} = {LowerCase[k], UpperCase[k]}

EndsWithIgnoringCase(str, ext) ==
  /\ Len(str) >= Len(ext)
  /\ \A i \in DOMAIN ext : SameLetter(str[Len(str) - Len(ext) + i], ext[i])

(* C20: ValidateMediaType succeeds if and only if the filename is not      *)
(* empty and its extension, lower-cased, is in the allow-list; an empty    *)
(* filename, one with no extension and one with any other extension fail,  *)
(* and the letter case of the extension does not matter.                   *)
C20_MediaTypeAllowList ==
  lastCall.op = "ValidateMediaType" =>
    LET filename == lastCall.arg
    IN  /\ lastCall.err = NoError <=>
             /\ filename # <<>>
             /\ \E ext \in AllowedTypes : EndsWithIgnoringCase(filename, ext)
        /\ (\A i \in DOMAIN filename : filename[i] # ".")
             => lastCall.err # NoError
        /\ ValidateMediaType(ToUpper(filename)) = lastCall.err

C20_Witness ==
  /\ lastCall.op = "ValidateMediaType"
  /\ lastCall.err = NoError
  /\ lastCall.arg # ToLower(lastCall.arg)
  /\ Contains(SubSeq(lastCall.arg, 1, Len(lastCall.arg) - 1), <<".">>)

(***************************************************************************)
(* A query parameter as the claims speak of it: the decimal integers in a  *)
(* range, written with an optional sign and any leading zeros.             *)
(***************************************************************************)
NumeralBody(str) ==
  IF str # <<>> /\ str[1] \in {"+", "-"} THEN Tail(str) ELSE str

IsNumeral(str) ==
  /\ NumeralBody(str) # <<>>
  /\ \A i \in DOMAIN NumeralBody(str) : NumeralBody(str)[i] \in DigitChars

IsNegative(str) ==
  /\ str[1] = "-"
  /\ \E i \in DOMAIN NumeralBody(str) : NumeralBody(str)[i] # "0"

IsLimitInRange(str) ==
  /\ IsNumeral(str)
  /\ ~IsNegative(str)
  /\ Len(Significant(NumeralBody(str))) <= 3
  /\ DecimalValue(Significant(NumeralBody(str))) \in 1..100

IsOffsetInRange(str) == IsNumeral(str) /\ ~IsNegative(str)

(* C21, as stated: an absent limit defaults to 20 and an absent offset to  *)
(* 0; the request is rejected if the limit is not an integer in [1,100] or *)
(* the offset is not an integer >= 0; a success returns 1 <= limit <= 100  *)
(* and offset >= 0, a failure returns limit = offset = 0.                  *)
C21_QueryParamsAsStated ==
  lastCall.op = "parseQueryParams" =>
    LET query == lastCall.arg
    IN  /\ (~query.limit.present /\ lastCall.err = NoError) => lastCall.limit = 20
        /\ (~query.offset.present /\ lastCall.err = NoError) => lastCall.offset = 0
        /\ (query.limit.present /\ ~IsLimitInRange(query.limit.value))
             => lastCall.err # NoError
        /\ (query.offset.present /\ ~IsOffsetInRange(query.offset.value))
             => lastCall.err # NoError
        /\ lastCall.err = NoError
             => (1 <= lastCall.limit /\ lastCall.limit <= 100 /\ lastCall.offset >= 0)
        /\ lastCall.err # NoError => (lastCall.limit = 0 /\ lastCall.offset = 0)

(* C21, amended: a limit that is absent or empty defaults to 20 and an     *)
(* offset that is absent or empty to 0; the request is rejected if a       *)
(* non-empty limit is not an integer in [1,100] or a non-empty offset is   *)
(* not an integer >= 0; a success returns 1 <= limit <= 100 and            *)
(* offset >= 0, a failure returns limit = offset = 0.                      *)
C21_QueryParams ==
  lastCall.op = "parseQueryParams" =>
    LET limitStr == Get(lastCall.arg.limit)
        offsetStr == Get(lastCall.arg.offset)
    IN  /\ (limitStr = <<>> /\ lastCall.err = NoError) => lastCall.limit = 20
        /\ (offsetStr = <<>> /\ lastCall.err = NoError) => lastCall.offset = 0
        /\ (limitStr = <<>> /\ offsetStr = <<>>) => lastCall.err = NoError
        /\ (limitStr # <<>> /\ ~IsLimitInRange(limitStr)) => lastCall.err # NoError
        /\ (offsetStr # <<>> /\ ~IsOffsetInRange(offsetStr)) => lastCall.err # NoError
        /\ lastCall.err = NoError
             => (1 <= lastCall.limit /\ lastCall.limit <= 100 /\ lastCall.offset >= 0)
        /\ lastCall.err # NoError => (lastCall.limit = 0 /\ lastCall.offset = 0)

C21_Witness ==
  /\ lastCall.op = "parseQueryParams"
  /\ lastCall.arg.limit.present
  /\ lastCall.arg.limit.value = <<>>
  /\ lastCall.err = NoError
  /\ lastCall.limit = 20

(* C22: a send command is forwarded to the network client only after its   *)
(* validation succeeded; a send-message request passes only if its         *)
(* recipient passes ValidateRecipient and its message passes               *)
(* ValidateMessageContent, a send-file request only if its recipient       *)
(* passes ValidateRecipient and its file path passes ValidateFilePath; the *)
(* recipient is checked first, so a request whose recipient and body are   *)
(* both invalid reports the recipient error.                               *)
C22_ValidationBeforeForwarding ==
  LET req == lastCall.arg
      recipientError == "invalid recipient: " \o ValidateRecipient(req.recipient)
  IN  /\ lastCall.op \in {"validateSendMessageRequest", "forwardMessage"} =>
           /\ lastCall.err = NoError =>
                /\ ValidateRecipient(req.recipient) = NoError
                /\ ValidateMessageContent(req.message) = NoError
           /\ ValidateRecipient(req.recipient) # NoError =>
                lastCall.err = recipientError
      /\ lastCall.op \in {"validateSendFileRequest", "forwardFile"} =>
           /\ lastCall.err = NoError =>
                /\ ValidateRecipient(req.recipient) = NoError
                /\ ValidateFilePath(req.file_path, req.env) = NoError
           /\ ValidateRecipient(req.recipient) # NoError =>
                lastCall.err = recipientError

C22_Witness ==
  /\ lastCall.op = "validateSendMessageRequest"
  /\ ValidateRecipient(lastCall.arg.recipient) # NoError
  /\ ValidateMessageContent(lastCall.arg.message) # NoError
  /\ lastCall.err = "invalid recipient: " \o ValidateRecipient(lastCall.arg.recipient)

(***************************************************************************)
(* A body as the claims speak of it: it is valid JSON when the whole of it *)
(* is one JSON value, and its fields are the keys of its outermost object. *)
(***************************************************************************)
IsValidJSON(t) == t # <<>> /\ ValueEnd(t, 1) = Len(t) + 1

Depth(t, i) ==
  Cardinality({k \in 1..(i - 1) : t[k] \in {"{", "["}})
    - Cardinality({k \in 1..(i - 1) : t[k] \in {"}", "]"}})

Fields(t) ==
  {t[i] : i \in {k \in 1..(Len(t) - 1) : t[k + 1] = ":" /\ Depth(t, k) = 1}}

(* C23: parseJSONBody returns an error when the body is absent, is not     *)
(* valid JSON, or contains a field that the target request type does not   *)
(* declare.                                                                *)
C23_StrictDecoding ==
  lastCall.op = "parseJSONBody" =>
    LET body == lastCall.arg.body
    IN  (\/ ~body.present
         \/ ~IsValidJSON(body.tokens)
         \/ Fields(body.tokens) \ lastCall.arg.declared # {})
          => lastCall.err # NoError

(* C24: NewStore on a database that already holds the schema and rows      *)
(* succeeds and leaves every row of chats and of messages unchanged, at    *)
(* every startup.                                                          *)
C24_SchemaIsIdempotent ==
  [][(lastCall'.op = "NewStore" /\ lastCall'.arg = NoError /\ schema = FullSchema)
       => /\ lastCall'.err = NoError
          /\ chats' = chats
          /\ messages' = messages
          /\ schema' = schema]_vars

C24_Witness ==
  /\ lastCall.op = "NewStore"
  /\ lastCall.err = NoError
  /\ chats # {}
  /\ messages # {}

C27_RecordInboundWritesChatFirst ==
  /\ [](\A c \in Callers :
          inbound[c] # <<>> => ChatExists(chats, inbound[c][1].chat_jid))
  /\ [](\A m \in messages : ChatExists(chats, m.chat_jid))
  /\ [][\A c \in Callers :
          (inbound[c] # <<>> /\ inbound'[c] = <<>>) =>
            /\ lastCall'.op = "StoreMessage"
            /\ lastCall'.err = NoError
            /\ ~IsEmptyMessage(inbound[c][1]) =>
                 /\ inbound[c][1] \in messages'
                 /\ ChatExists(chats', inbound[c][1].chat_jid)]_vars

C27_Witness ==
  /\ lastCall.op = "StoreMessage"
  /\ lastCall.err = NoError
  /\ lastCall.arg \in messages
  /\ \E c \in Callers :
       /\ inbound[c] # <<>>
       /\ inbound[c][1].chat_jid = lastCall.arg.chat_jid
       /\ inbound[c][1] \notin messages

(* C28: StoreChat on a jid that already has messages does not fail and     *)
(* leaves the messages table as it was: no message of that jid is deleted  *)
(* or altered, and no other chat's row is touched.                         *)
C28_ReplacingChatKeepsMessages ==
  [][lastCall'.op = "StoreChat" =>
       /\ lastCall'.err = NoError
       /\ messages' = messages
       /\ \A c \in chats : c.jid # lastCall'.arg.jid => c \in chats'
       /\ \A c \in chats' : c.jid # lastCall'.arg.jid => c \in chats
       /\ lastCall'.arg \in chats']_vars

C28_Witness ==
  /\ lastCall.op = "StoreChat"
  /\ \E m \in messages : m.chat_jid = lastCall.arg.jid
  /\ \E m \in messages : m.chat_jid # lastCall.arg.jid
  /\ lastCall.arg.name = "B"

(* C29: when StoreMessage returns an error both tables are exactly what    *)
(* they were before the call, and every list operation has the results it  *)
(* had before the call.                                                    *)
C29_FailedWriteChangesNothing ==
  [][(lastCall'.op = "StoreMessage" /\ lastCall'.err # NoError) =>
       /\ chats' = chats
       /\ messages' = messages
       /\ \A chatJID \in JIDs, limit \in Limits, offset \in Offsets :
            GetMessagesResults(messages', chatJID, limit, offset)
              = GetMessagesResults(messages, chatJID, limit, offset)
       /\ \A limit \in Limits, offset \in Offsets :
            GetChatsResults(chats', limit, offset)
              = GetChatsResults(chats, limit, offset)]_vars

C29_Witness ==
  /\ lastCall.op = "StoreMessage"
  /\ lastCall.err = ForeignKeyViolation
  /\ messages # {}
  /\ chats # {}

(* C30: ValidateFilePath rejects a path only for the listed reasons: every *)
(* non-empty path that contains no null byte, whose normalized form has no *)
(* ".." segment and that resolves to an absolute form is accepted, also a  *)
(* path with a name that merely contains two dots in a row and a path      *)
(* whose ".." segments normalization resolves.                             *)
C30_FilePathRejectsOnlyForListedReasons ==
  lastCall.op = "ValidateFilePath" =>
    LET path == lastCall.arg.path
    IN  (/\ path # <<>>
         /\ ~HasNullByte(path)
         /\ ~HasParentSegment(path)
         /\ (IsAbs(path) \/ lastCall.arg.env.getwd = NoError))
          => lastCall.err = NoError
====
